---- MODULE Spec2Model ----
(***************************************************************************)
(* Model of the template-engine line classifier (src/src/lib.rs).          *)
(*                                                                         *)
(* A Rust &str is modelled as the sequence of its UTF-8 bytes, each byte a *)
(* one-element name: ASCII bytes by their character, the two bytes of the  *)
(* non-ASCII character U+00E9 as "C3" (lead byte) and "A9" (continuation   *)
(* byte).  Indices are 0-based byte offsets, as in the source.  A panic    *)
(* (slice out of range, begin > end, index inside a character) is a value  *)
(* of its own, so a faulting call is visible in the state.                 *)
(***************************************************************************)
EXTENDS Integers, Sequences, FiniteSets, TLC

VARIABLES pc, input_line, content, context, ret, decomposed

vars == <<pc, input_line, content, context, ret, decomposed>>

\* ------------------------------------------------------------------ bounds
\* Largest number of fragments a line of the classifier's input set is made of.
MaxTokens == 4
\* Largest number of fragments a line of the decomposer's input set is made of.
MaxExprTokens == 5

\* ------------------------------------------------------------ text values
LBrace == "{"
RBrace == "}"

\* The fixed delimiter and keyword tokens of get_content_type.
TagLeft == <<"{", "%">>
TagRight == <<"%", "}">>
VarLeft == <<"{", "{">>
VarRight == <<"}", "}">>
KwFor == <<"f", "o", "r">>
KwIn == <<"i", "n">>
KwEndfor == <<"e", "n", "d", "f", "o", "r">>
KwIf == <<"i", "f">>
KwEndif == <<"e", "n", "d", "i", "f">>
\* U+00E9 in UTF-8: a character that is two bytes wide.
EAcute == <<"C3", "A9">>

\* UTF-8: "C3" starts a two-byte character, "A9" is its continuation byte.
IsContinuationByte(b) == b = "A9"
CharWidth(b) == IF b = "C3" THEN 2 ELSE 1

\* str::is_char_boundary, as the slicing of &str checks it.
IsCharBoundary(s, idx) ==
    \/ idx = 0
    \/ idx = Len(s)
    \/ (idx < Len(s) /\ ~IsContinuationByte(s[idx + 1]))

\* The fragments the classifier's input lines are assembled from: every
\* delimiter and keyword the classifier looks for, lone braces, plain text.
Tokens ==
    { VarLeft, VarRight, TagLeft, TagRight, <<"{">>, <<"}">>,
      KwFor, KwIn, KwIf, KwEndfor, KwEndif, EAcute }

\* The fragments the decomposer's input lines are assembled from: braces,
\* single and doubled, and text of one byte, two bytes and one two-byte character.
ExprTokens ==
    { VarLeft, VarRight, <<"{">>, <<"}">>, <<"%">>, KwIf, EAcute }

RECURSIVE Flatten(_)
Flatten(ts) == IF ts = <<>> THEN <<>> ELSE Head(ts) \o Flatten(Tail(ts))

LinesOf(toks, n) == { Flatten(ts) : ts \in UNION { [1..m -> toks] : m \in 0..n } }

Lines == LinesOf(Tokens, MaxTokens)
ExprLines == LinesOf(ExprTokens, MaxExprTokens)

\* ------------------------------------------------------------ Option, results
None == [some |-> FALSE, val |-> <<>>]
Some(s) == [some |-> TRUE, val |-> s]

ExpressionData(h, v, t) == [head |-> h, variable |-> v, tail |-> t]
NoContent == ExpressionData(None, <<>>, None)

Literal(s) == [kind |-> "Literal", text |-> s, tag |-> "", content |-> NoContent]
TemplateVariable(c) == [kind |-> "TemplateVariable", text |-> <<>>, tag |-> "", content |-> c]
Tag(t) == [kind |-> "Tag", text |-> <<>>, tag |-> t, content |-> NoContent]
Unrecognized == [kind |-> "Unrecognized", text |-> <<>>, tag |-> "", content |-> NoContent]
\* A panic unwinding out of the call: no value is returned.
Panic == [kind |-> "Panic", text |-> <<>>, tag |-> "", content |-> NoContent]
\* A returned String (generate_html_template_var).
Html(s) == [kind |-> "String", text |-> s, tag |-> "", content |-> NoContent]
\* A returned ExpressionData (get_expression_data called directly).
Parts(c) == [kind |-> "ExpressionData", text |-> <<>>, tag |-> "", content |-> c]
NoRet == [kind |-> "None", text |-> <<>>, tag |-> "", content |-> NoContent]

\* The ExpressionData values and binding maps the renderer is called with.
Heads == { None, Some(<<>>), Some(KwIf), Some(EAcute) }
Variables == { <<>>, KwIn, <<"%">> }
Keys == { <<>>, KwIn }
Values == { <<"%">>, VarLeft }
Contents == { ExpressionData(h, v, t) : h \in Heads, v \in Variables, t \in Heads }
Contexts == UNION { [D -> Values] : D \in SUBSET Keys }
EmptyContext == CHOOSE c \in Contexts : DOMAIN c = {}

\* ------------------------------------------------------------ string helpers
\* str::contains with a string pattern.
Contains(s, pat) ==
    \E i \in 0..(Len(s) - Len(pat)) : SubSeq(s, i + 1, i + Len(pat)) = pat

\* &s[b..e]: panics unless b <= e <= len and both lie on character boundaries.
SliceOk(s, b, e) ==
    /\ b <= e
    /\ e <= Len(s)
    /\ IsCharBoundary(s, b)
    /\ IsCharBoundary(s, e)
Slice(s, b, e) == SubSeq(s, b + 1, e)

check_symbol_string(line, symbol) == Contains(line, symbol)

check_matching_pair_or(line, left, right) == Contains(line, left) \/ Contains(line, right)
check_matching_pair(line, left, right) == Contains(line, left) /\ Contains(line, right)

\* The while-let loop over char_indices: stops at the first character equal to
\* symbol; (false, 0) when the iterator runs out.
RECURSIVE ScanChars(_, _, _, _)
ScanChars(line, pos, symbol, found) ==
    IF pos >= Len(line) THEN found
    ELSE LET w == CharWidth(line[pos + 1])
             ch == SubSeq(line, pos + 1, pos + w)
         IN IF ch = <<symbol>> THEN [exist |-> TRUE, index |-> pos]
            ELSE ScanChars(line, pos + w, symbol, found)

\* The loop without its break: the last matching character wins.
RECURSIVE ScanCharsNoBreak(_, _, _, _)
ScanCharsNoBreak(line, pos, symbol, found) ==
    IF pos >= Len(line) THEN found
    ELSE LET w == CharWidth(line[pos + 1])
             ch == SubSeq(line, pos + 1, pos + w)
         IN ScanCharsNoBreak(line, pos + w, symbol,
                IF ch = <<symbol>> THEN [exist |-> TRUE, index |-> pos] ELSE found)

get_index_for_symbol_last(line, symbol) ==
    ScanCharsNoBreak(line, 0, symbol, [exist |-> FALSE, index |-> 0])
get_index_for_symbol(line, symbol) ==
    ScanChars(line, 0, symbol, [exist |-> FALSE, index |-> 0])

\* get_expression_data with the opening delimiter taken as one character wide.
get_expression_data_skip1(line) ==
    LET i == get_index_for_symbol(line, LBrace).index
        k == get_index_for_symbol(line, RBrace).index
    IN IF ~SliceOk(line, 0, i) THEN Panic
       ELSE IF ~SliceOk(line, i + 1, k) THEN Panic
       ELSE IF ~SliceOk(line, k + 1 + 1, Len(line)) THEN Panic
       ELSE Parts(ExpressionData(Some(Slice(line, 0, i)),
                                 Slice(line, i + 1, k),
                                 Some(Slice(line, k + 1 + 1, Len(line)))))
\* get_expression_data: the three slices in source order; the first slice that
\* is out of range panics.
get_expression_data(line) ==
    LET i == get_index_for_symbol(line, LBrace).index
        k == get_index_for_symbol(line, RBrace).index
    IN IF ~SliceOk(line, 0, i) THEN Panic
       ELSE IF ~SliceOk(line, i + 1 + 1, k) THEN Panic
       ELSE IF ~SliceOk(line, k + 1 + 1, Len(line)) THEN Panic
       ELSE Parts(ExpressionData(Some(Slice(line, 0, i)),
                                 Slice(line, i + 1 + 1, k),
                                 Some(Slice(line, k + 1 + 1, Len(line)))))

is_tag_expression(line) == check_matching_pair(line, TagLeft, TagRight)

is_for_tag_no_endfor(line) ==
    check_symbol_string(line, KwFor) /\ check_symbol_string(line, KwIn)
is_for_tag_any(line) ==
    \/ check_symbol_string(line, KwFor)
    \/ check_symbol_string(line, KwIn)
    \/ check_symbol_string(line, KwEndfor)
is_for_tag(line) ==
    \/ (check_symbol_string(line, KwFor) /\ check_symbol_string(line, KwIn))
    \/ check_symbol_string(line, KwEndfor)

is_if_tag_endif_only(line) == check_symbol_string(line, KwEndif)
is_if_tag(line) ==
    check_symbol_string(line, KwIf) \/ check_symbol_string(line, KwEndif)

is_template_variable(line) == check_matching_pair(line, VarLeft, VarRight)

\* The TemplateVariable arm: the decomposer's value wrapped, its panic passed on.
TemplateVariableArm(line) ==
    LET c == get_expression_data(line)
    IN [ret |-> IF c.kind = "Panic" THEN Panic ELSE TemplateVariable(c.content),
        decomposed |-> TRUE]

\* The if/else-if chain with the interpolation arm tested first.
get_content_type_run_var_first(line) ==
    IF is_template_variable(line) THEN TemplateVariableArm(line)
    ELSE IF is_tag_expression(line) /\ is_for_tag(line) THEN
        [ret |-> Tag("ForTag"), decomposed |-> FALSE]
    ELSE IF is_tag_expression(line) /\ is_if_tag(line) THEN
        [ret |-> Tag("IfTag"), decomposed |-> FALSE]
    ELSE IF ~is_tag_expression(line) /\ ~is_template_variable(line) THEN
        [ret |-> Literal(line), decomposed |-> FALSE]
    ELSE [ret |-> Unrecognized, decomposed |-> FALSE]
\* get_content_type: ret is the value returned (or the panic), decomposed
\* whether the call reached get_expression_data.
get_content_type_run(line) ==
    IF is_tag_expression(line) /\ is_for_tag(line) THEN
        [ret |-> Tag("ForTag"), decomposed |-> FALSE]
    ELSE IF is_tag_expression(line) /\ is_if_tag(line) THEN
        [ret |-> Tag("IfTag"), decomposed |-> FALSE]
    ELSE IF is_template_variable(line) THEN TemplateVariableArm(line)
    ELSE IF ~is_tag_expression(line) /\ ~is_template_variable(line) THEN
        [ret |-> Literal(line), decomposed |-> FALSE]
    ELSE [ret |-> Unrecognized, decomposed |-> FALSE]

get_content_type(line) == get_content_type_run(line).ret

\* HashMap::get.
MapGet(ctx, key) == IF key \in DOMAIN ctx THEN Some(ctx[key]) ELSE None

\* push_str under if-let: the text appended when the Option holds one.
PushIfSome(html, opt) == IF opt.some THEN html \o opt.val ELSE html

\* generate_html_template_var with the tail pushed before the looked-up value.
generate_html_template_var_tail_first(c, ctx) ==
    PushIfSome(PushIfSome(PushIfSome(<<>>, c.head), c.tail), MapGet(ctx, c.variable))
generate_html_template_var(c, ctx) ==
    PushIfSome(PushIfSome(PushIfSome(<<>>, c.head), MapGet(ctx, c.variable)), c.tail)

\* ------------------------------------------------------------ state machine
\* pc = "line": the caller holds a line; "parts": it holds an ExpressionData of
\* its own making; then the name of the state the last call left.
InitWith(lines) ==
    /\ \/ (pc = "line" /\ input_line \in lines /\ content = NoContent)
       \/ (pc = "parts" /\ input_line = <<>> /\ content \in Contents)
    /\ context = EmptyContext
    /\ ret = NoRet
    /\ decomposed = FALSE

Init == InitWith(Lines)
InitExpr == InitWith(ExprLines)

CallGetContentType ==
    /\ pc = "line"
    /\ pc' = "classified"
    /\ ret' = get_content_type(input_line)
    /\ decomposed' = get_content_type_run(input_line).decomposed
    /\ UNCHANGED <<input_line, content, context>>

CallGetExpressionData ==
    /\ pc = "line"
    /\ pc' = "decomposed"
    /\ ret' = get_expression_data(input_line)
    /\ decomposed' = TRUE
    /\ UNCHANGED <<input_line, content, context>>

\* The caller renders the parts a classification returned.
RenderClassified ==
    /\ pc = "classified"
    /\ ret.kind = "TemplateVariable"
    /\ \E ctx \in Contexts :
        /\ context' = ctx
        /\ content' = ret.content
        /\ ret' = Html(generate_html_template_var(ret.content, ctx))
    /\ pc' = "rendered"
    /\ UNCHANGED <<input_line, decomposed>>

\* The caller renders an ExpressionData it built itself.
RenderParts ==
    /\ pc = "parts"
    /\ \E ctx \in Contexts :
        /\ context' = ctx
        /\ ret' = Html(generate_html_template_var(content, ctx))
    /\ pc' = "rendered"
    /\ UNCHANGED <<input_line, content, decomposed>>

Next ==
    \/ CallGetContentType
    \/ CallGetExpressionData
    \/ RenderClassified
    \/ RenderParts

Spec == Init /\ [][Next]_vars
SpecExpr == InitExpr /\ [][Next]_vars

\* ------------------------------------------------------------ claim vocabulary
\* What the claims say of a line, stated on the text itself.
HasTagPair(line) == Contains(line, TagLeft) /\ Contains(line, TagRight)
HasVarPair(line) == Contains(line, VarLeft) /\ Contains(line, VarRight)
HasLoopKeywords(line) ==
    (Contains(line, KwFor) /\ Contains(line, KwIn)) \/ Contains(line, KwEndfor)
HasIfKeywords(line) == Contains(line, KwIf) \/ Contains(line, KwEndif)
HasBrace(s) == \E n \in 1..Len(s) : s[n] \in {LBrace, RBrace}
TextBefore(line, n) == SubSeq(line, 1, n)
TextBetween(line, b, e) == SubSeq(line, b + 1, e)
TextFrom(line, n) == SubSeq(line, n + 1, Len(line))
At(line, n, pat) ==
    n + Len(pat) <= Len(line) /\ SubSeq(line, n + 1, n + Len(pat)) = pat
OptText(o) == IF o.some THEN o.val ELSE <<>>
Categories == {"Literal", "TemplateVariable", "Tag", "Unrecognized"}

\* The smallest 0-based index holding byte c, and 0 when there is none.
Positions(line, c) == { n \in 0..(Len(line) - 1) : line[n + 1] = c }
FirstIndex(line, c) ==
    IF Positions(line, c) = {} THEN 0
    ELSE CHOOSE n \in Positions(line, c) : \A m \in Positions(line, c) : n <= m

\* <<a, b>>: line = head ++ "{{" ++ variable ++ "}}" ++ tail with "{{" at a, "}}"
\* at b, and no brace in head, variable or tail.
WellFormedSplits(line) ==
    { ab \in (0..Len(line)) \X (0..Len(line)) :
        /\ At(line, ab[1], VarLeft)
        /\ At(line, ab[2], VarRight)
        /\ ab[1] + 2 <= ab[2]
        /\ ~HasBrace(TextBefore(line, ab[1]))
        /\ ~HasBrace(TextBetween(line, ab[1] + 2, ab[2]))
        /\ ~HasBrace(TextFrom(line, ab[2] + 2)) }

SplitParts(line, ab) ==
    ExpressionData(Some(TextBefore(line, ab[1])),
                   TextBetween(line, ab[1] + 2, ab[2]),
                   Some(TextFrom(line, ab[2] + 2)))

Rebuild(c) == OptText(c.head) \o VarLeft \o c.variable \o VarRight \o OptText(c.tail)

\* <<a, b>>: a first interpolation "{{" at a .. "}}" at b with brace-free head and
\* variable, followed by a second complete interpolation.
TwoInterpolations(line) ==
    { ab \in (0..Len(line)) \X (0..Len(line)) :
        /\ At(line, ab[1], VarLeft)
        /\ At(line, ab[2], VarRight)
        /\ ab[1] + 2 <= ab[2]
        /\ ~HasBrace(TextBefore(line, ab[1]))
        /\ ~HasBrace(TextBetween(line, ab[1] + 2, ab[2]))
        /\ \E c \in (ab[2] + 2)..Len(line), d \in (ab[2] + 2)..Len(line) :
              At(line, c, VarLeft) /\ At(line, d, VarRight) /\ c + 2 <= d }

\* No well-formed brace boundaries: the cases C3 lists.
Malformed(line) ==
    \/ Positions(line, LBrace) = {}
    \/ Positions(line, RBrace) = {}
    \/ FirstIndex(line, RBrace) < FirstIndex(line, LBrace) + 2
    \/ Len(line) - FirstIndex(line, RBrace) < 2

\* ------------------------------------------------------------------ claims
\* C1: get_content_type returns one of the four categories for every input
\* line; no line makes it fault.
C1_AlwaysClassifies ==
    pc = "classified" => ret.kind \in Categories

\* C2 (as stated): every line with "{%" and "%}" and "if" or "endif" is
\* classified Tag(IfTag).
C2_IfTagOriginal ==
    (pc = "classified" /\ HasTagPair(input_line) /\ HasIfKeywords(input_line))
        => ret = Tag("IfTag")

\* C2 (amended): every line with "{%" and "%}" and "if" or "endif", and without
\* the loop keywords (both "for" and "in", or "endfor"), is classified Tag(IfTag).
C2_IfTag ==
    (pc = "classified" /\ HasTagPair(input_line) /\ HasIfKeywords(input_line)
        /\ ~HasLoopKeywords(input_line))
        => ret = Tag("IfTag")

C2_Witness ==
    /\ pc = "classified"
    /\ HasTagPair(input_line)
    /\ Contains(input_line, KwEndif)
    /\ ~HasLoopKeywords(input_line)
    /\ ret = Tag("IfTag")

\* C3: get_expression_data on a line without well-formed brace boundaries
\* ends in a reported MalformedExpression value, never in a fault.
C3_MalformedReported ==
    (pc = "decomposed" /\ Malformed(input_line))
        => ret.kind = "MalformedExpression"

\* C4 (as stated): every line head ++ "{{" ++ variable ++ "}}" ++ tail with
\* brace-free parts is classified TemplateVariable with exactly those parts,
\* and the parts rebuild the line.
C4_RoundTripOriginal ==
    pc = "classified" =>
        \A ab \in WellFormedSplits(input_line) :
            /\ ret = TemplateVariable(SplitParts(input_line, ab))
            /\ Rebuild(ret.content) = input_line

\* C4 (amended): the same, for the lines no tag branch matches (not both "{%"
\* and "%}" together with loop or conditional keywords).
C4_RoundTrip ==
    (pc = "classified"
        /\ ~(HasTagPair(input_line)
             /\ (HasLoopKeywords(input_line) \/ HasIfKeywords(input_line))))
        => \A ab \in WellFormedSplits(input_line) :
            /\ ret = TemplateVariable(SplitParts(input_line, ab))
            /\ Rebuild(ret.content) = input_line

C4_Witness ==
    /\ pc = "classified"
    /\ ret.kind = "TemplateVariable"
    /\ \E ab \in WellFormedSplits(input_line) :
        /\ ab[1] > 0
        /\ ab[2] > ab[1] + 2
        /\ ab[2] + 2 < Len(input_line)

\* C5: every line with "{%" and "%}" and both "for" and "in", or "endfor", is
\* classified Tag(ForTag), whatever else it holds.
C5_ForTag ==
    (pc = "classified" /\ HasTagPair(input_line) /\ HasLoopKeywords(input_line))
        => ret = Tag("ForTag")

C5_Witness ==
    /\ pc = "classified"
    /\ HasTagPair(input_line)
    /\ HasLoopKeywords(input_line)
    /\ HasIfKeywords(input_line)
    /\ ret = Tag("ForTag")

C7_TagBeforeInterpolation ==
    (pc = "classified" /\ HasTagPair(input_line) /\ HasVarPair(input_line)
        /\ (HasLoopKeywords(input_line) \/ HasIfKeywords(input_line)))
        => (ret.kind = "Tag" /\ ~decomposed)

\* Reached on a line whose brace layout would make the decomposer fault.
C7_Witness ==
    /\ pc = "classified"
    /\ HasTagPair(input_line)
    /\ HasVarPair(input_line)
    /\ FirstIndex(input_line, RBrace) < FirstIndex(input_line, LBrace)
    /\ ret.kind = "Tag"
    /\ ~decomposed

\* C8: the rendered text is head, then the value bound to variable if the map
\* has that key, then tail; an absent head or tail and a missing binding add
\* nothing, and with an empty map the result is head ++ tail.
C8_Render ==
    pc = "rendered" =>
        /\ ret.kind = "String"
        /\ ret.text = OptText(content.head)
                        \o (IF content.variable \in DOMAIN context
                            THEN context[content.variable] ELSE <<>>)
                        \o OptText(content.tail)
        /\ (DOMAIN context = {} =>
                ret.text = OptText(content.head) \o OptText(content.tail))

C8_Witness ==
    /\ pc = "rendered"
    /\ content.variable \in DOMAIN context
    /\ content.head.some /\ content.head.val # <<>>
    /\ content.tail.some /\ content.tail.val # <<>>
    /\ content.tail.val # content.head.val
    /\ ret.text = content.head.val \o context[content.variable] \o content.tail.val

\* C9 (as stated): Unrecognized is returned exactly for the lines with the tag
\* pair, no loop keywords, no "if" and no interpolation pair; and every line with
\* the tag pair and no recognized keyword is Unrecognized.
C9_UnrecognizedOriginal ==
    pc = "classified" =>
        /\ (ret = Unrecognized <=>
                (HasTagPair(input_line) /\ ~HasLoopKeywords(input_line)
                    /\ ~Contains(input_line, KwIf) /\ ~HasVarPair(input_line)))
        /\ ((HasTagPair(input_line) /\ ~HasLoopKeywords(input_line)
                /\ ~HasIfKeywords(input_line))
              => ret = Unrecognized)

\* C9 (amended): Unrecognized is returned exactly for the lines with the tag
\* pair, no loop keywords, no "if" and no interpolation pair.
C9_Unrecognized ==
    pc = "classified" =>
        (ret = Unrecognized <=>
            (HasTagPair(input_line) /\ ~HasLoopKeywords(input_line)
                /\ ~Contains(input_line, KwIf) /\ ~HasVarPair(input_line)))

C9_Witness ==
    /\ pc = "classified"
    /\ HasTagPair(input_line)
    /\ Contains(input_line, KwFor)
    /\ ret = Unrecognized

\* C10: when get_expression_data returns, head is the text before the first
\* '{' (index i), variable the text from i+2 up to the first '}' (index k),
\* tail the text from k+2 on; head holds no brace, variable no '}', and a
\* second interpolation stays verbatim in tail.
C10_FirstOccurrenceSplit ==
    (pc = "decomposed" /\ ret.kind = "ExpressionData") =>
        LET i == FirstIndex(input_line, LBrace)
            k == FirstIndex(input_line, RBrace)
        IN /\ ret.content.head = Some(TextBefore(input_line, i))
           /\ ret.content.variable = TextBetween(input_line, i + 2, k)
           /\ ret.content.tail = Some(TextFrom(input_line, k + 2))
           /\ ~HasBrace(ret.content.head.val)
           /\ ~Contains(ret.content.variable, <<RBrace>>)
           /\ \A ab \in TwoInterpolations(input_line) :
                /\ ret.content.tail.val = TextFrom(input_line, ab[2] + 2)
                /\ HasVarPair(ret.content.tail.val)

C10_Witness ==
    /\ pc = "decomposed"
    /\ ret.kind = "ExpressionData"
    /\ \E ab \in TwoInterpolations(input_line) : ab[1] > 0
====
